---- MODULE Spec2Model ----
(***************************************************************************)
(* Model of dcargs/_arguments.py: the ArgumentDefinition record, the five  *)
(* transformation stages that ArgumentDefinition.make_from_field applies   *)
(* to it, get_flag / add_argument, and the collaborators the stages call   *)
(* (the type resolver, the documentation lookup and the token parsing      *)
(* engine).                                                                *)
(*                                                                         *)
(* Python strings are sequences of one-character strings, so that          *)
(* str.replace, shlex.quote and the parsing of tokens are computed on the  *)
(* characters.  Python values are records [k, n, s, e]: the kind, an       *)
(* integer payload, a string payload and the elements of a container.      *)
(* A type annotation is the sequence of its constructors, outermost first: *)
(* <<"Annotated", "Optional", "int">> is Annotated[Optional[int], ...].    *)
(***************************************************************************)
EXTENDS Integers, Sequences, FiniteSets, TLC

VARIABLES
    pc,         \* position in make_from_field / parse
    field,      \* the dataclasses.Field: [name, type]
    fdefault,   \* the `default` argument of make_from_field
    doc,        \* what _docstrings.get_field_docstring returns for the field
    arg,        \* the local variable `arg` of make_from_field
    trail,      \* the definitions bound to `arg` so far, oldest first
    ran,        \* the stages executed so far, oldest first
    resolved,   \* number of calls of _instantiators.instantiator_from_type
    argv,       \* the command line handed to parse: [given, flag, values]
    outcome     \* what parse produced: [status, key, value]

vars == <<pc, field, fdefault, doc, arg, trail, ran, resolved, argv, outcome>>

----------------------------------------------------------------------------
(* Bounds of the model. *)

\* Longest chain of Annotated / Final / Optional around a base type.
MaxWrap == 2

\* Largest magnitude of an integer used as a default.
MaxInt == 12

----------------------------------------------------------------------------
(* Strings. *)

\* The marker for an attribute that is None where a string is expected.
NoStr == <<"<None>">>

Digits == <<"0", "1", "2", "3", "4", "5", "6", "7", "8", "9">>

DigitSet == {Digits[i] : i \in 1..10}

DigitVal(c) == (CHOOSE i \in 1..10 : Digits[i] = c) - 1

\* sep.join(parts)
RECURSIVE Join(_, _)
Join(sep, parts) ==
    IF parts = <<>> THEN <<>>
    ELSE IF Len(parts) = 1 THEN parts[1]
    ELSE parts[1] \o sep \o Join(sep, Tail(parts))

\* s.replace(old, new) for a one-character `old`.
RECURSIVE Replace(_, _, _)
Replace(s, old, new) ==
    IF s = <<>> THEN <<>>
    ELSE (IF Head(s) = old THEN new ELSE <<Head(s)>>) \o Replace(Tail(s), old, new)

RECURSIVE NatToStr(_)
NatToStr(n) ==
    IF n < 10 THEN <<Digits[n + 1]>>
    ELSE NatToStr(n \div 10) \o <<Digits[(n % 10) + 1]>>

\* str(i) for an int.
IntToStr(i) == IF i < 0 THEN <<"-">> \o NatToStr(0 - i) ELSE NatToStr(i)

RECURSIVE DigitsToNat(_, _)
DigitsToNat(s, acc) ==
    IF s = <<>> THEN acc
    ELSE DigitsToNat(Tail(s), 10 * acc + DigitVal(Head(s)))

AllDigits(s) == s # <<>> /\ \A i \in 1..Len(s) : s[i] \in DigitSet

\* The characters shlex.quote leaves alone: [\w@%+=:,./-] under re.ASCII.
SafeChars ==
    DigitSet \cup
    {"a", "b", "c", "d", "e", "f", "g", "h", "i", "j", "k", "l", "m",
     "n", "o", "p", "q", "r", "s", "t", "u", "v", "w", "x", "y", "z",
     "A", "B", "C", "D", "E", "F", "G", "H", "I", "J", "K", "L", "M",
     "N", "O", "P", "Q", "R", "S", "T", "U", "V", "W", "X", "Y", "Z",
     "_", "@", "%", "+", "=", ":", ",", ".", "/", "-"}

\* shlex.quote(s)
ShlexQuote(s) ==
    IF s = <<>> THEN <<"'", "'">>
    ELSE IF \A i \in 1..Len(s) : s[i] \in SafeChars THEN s
    ELSE <<"'">> \o Replace(s, "'", <<"'", "\"", "'", "\"", "'">>) \o <<"'">>

----------------------------------------------------------------------------
(* Python values. *)

NoneV == [k |-> "None", n |-> 0, s |-> <<>>, e |-> <<>>]
IntV(i) == [k |-> "int", n |-> i, s |-> <<>>, e |-> <<>>]
\* A float with one decimal digit, held in tenths: FloatV(50) is 5.0.
FloatV(t) == [k |-> "float", n |-> t, s |-> <<>>, e |-> <<>>]
BoolV(b) == [k |-> "bool", n |-> IF b THEN 1 ELSE 0, s |-> <<>>, e |-> <<>>]
TrueV == BoolV(TRUE)
FalseV == BoolV(FALSE)
StrV(s) == [k |-> "str", n |-> 0, s |-> s, e |-> <<>>]
\* The member of the enumerated type Color with index i.
EnumV(i) == [k |-> "Color", n |-> i, s |-> <<>>, e |-> <<>>]
TupleV(es) == [k |-> "tuple", n |-> 0, s |-> <<>>, e |-> es]
ListV(es) == [k |-> "list", n |-> 0, s |-> <<>>, e |-> es]

\* class Color(enum.Enum): RED, GREEN, BLUE
ColorNames == << <<"R", "E", "D">>, <<"G", "R", "E", "E", "N">>, <<"B", "L", "U", "E">> >>

\* x.name for an enum member
EnumName(x) == ColorNames[x.n]

IsEnum(x) == x.k = "Color"

\* hasattr(x, "__iter__")
HasIter(x) == x.k \in {"tuple", "list", "str"}

\* str(x).  The str of a container is never taken for a default of the
\* field's type, and has no case here.
PyStr(x) ==
    CASE x.k = "None" -> <<"N", "o", "n", "e">>
      [] x.k = "int" -> IntToStr(x.n)
      [] x.k = "float" -> NatToStr(x.n \div 10) \o <<".">> \o NatToStr(x.n % 10)
      [] x.k = "bool" -> IF x.n = 1 THEN <<"T", "r", "u", "e">>
                         ELSE <<"F", "a", "l", "s", "e">>
      [] x.k = "str" -> x.s
      [] x.k = "Color" -> <<"C", "o", "l", "o", "r", ".">> \o EnumName(x)

----------------------------------------------------------------------------
(* Type annotations and the type resolver (_instantiators). *)

Wrappers == {"Annotated", "Final", "Optional"}

Primitives == {"int", "str", "float", "bool"}

\* The type with every leading wrapper (Optional included) removed.
RECURSIVE BaseOf(_)
BaseOf(typ) == IF Head(typ) \in Wrappers THEN BaseOf(Tail(typ)) ELSE typ

NoChoices == [set |-> FALSE, vals |-> {}]

NoNargs == [kind |-> "None", n |-> 0]

\* InstantiatorMetadata of instantiator_from_type(typ, ...).
RECURSIVE MetadataFromType(_)
MetadataFromType(typ) ==
    LET h == Head(typ)
        plain == [choices |-> NoChoices, nargs |-> NoNargs,
                  is_optional |-> FALSE, metavar |-> <<h>>]
    IN  CASE h \in {"Annotated", "Final"} -> MetadataFromType(Tail(typ))
          [] h = "Optional" -> [MetadataFromType(Tail(typ)) EXCEPT !.is_optional = TRUE]
          [] h = "Color" ->
                [plain EXCEPT !.choices =
                    [set |-> TRUE, vals |-> {ColorNames[i] : i \in 1..Len(ColorNames)}]]
          [] h = "Tuple" -> [plain EXCEPT !.nargs = [kind |-> "fixed", n |-> Len(typ) - 1]]
          [] h = "List" -> [plain EXCEPT !.nargs = [kind |-> "+", n |-> 0]]
          [] h \in Primitives -> plain

Ok(v) == [status |-> "ok", v |-> v]

Failed(why) == [status |-> why, v |-> NoneV]

\* int(token): an optional sign and decimal digits.
IntFromString(s) ==
    IF AllDigits(s) THEN Ok(IntV(DigitsToNat(s, 0)))
    ELSE IF s # <<>> /\ Head(s) \in {"-", "+"} /\ AllDigits(Tail(s))
         THEN Ok(IntV(IF Head(s) = "-" THEN 0 - DigitsToNat(Tail(s), 0)
                      ELSE DigitsToNat(Tail(s), 0)))
    ELSE Failed("ConversionError")

\* float(token), for tokens with at most one decimal digit.
FloatFromString(s) ==
    IF AllDigits(s) THEN Ok(FloatV(10 * DigitsToNat(s, 0)))
    ELSE IF Len(s) >= 3 /\ s[Len(s) - 1] = "." /\ AllDigits(SubSeq(s, 1, Len(s) - 2))
            /\ s[Len(s)] \in DigitSet
         THEN Ok(FloatV(10 * DigitsToNat(SubSeq(s, 1, Len(s) - 2), 0) + DigitVal(s[Len(s)])))
    ELSE Failed("ConversionError")

\* The two canonical spellings of a boolean.
BoolFromString(s) ==
    IF s = <<"T", "r", "u", "e">> THEN Ok(TrueV)
    ELSE IF s = <<"F", "a", "l", "s", "e">> THEN Ok(FalseV)
    ELSE Failed("ConversionError")

\* Color[token]: case-sensitive lookup of a member by name.
EnumFromString(s) ==
    IF \E i \in 1..Len(ColorNames) : ColorNames[i] = s
    THEN Ok(EnumV(CHOOSE i \in 1..Len(ColorNames) : ColorNames[i] = s))
    ELSE Failed("InvalidChoice")

\* The instantiator of a leaf type, applied to one token.
LeafFromString(leaf, s) ==
    CASE leaf = "int" -> IntFromString(s)
      [] leaf = "float" -> FloatFromString(s)
      [] leaf = "bool" -> BoolFromString(s)
      [] leaf = "str" -> Ok(StrV(s))
      [] leaf = "Color" -> EnumFromString(s)

\* The instantiator of instantiator_from_type(typ, ...), applied to the raw
\* string (a str value) or strings (a tuple of str values) of the field.
RECURSIVE InstantiateFromType(_, _)
InstantiateFromType(typ, raw) ==
    LET h == Head(typ)
    IN  CASE h \in Wrappers -> InstantiateFromType(Tail(typ), raw)
          [] h = "Tuple" ->
                LET rs == [i \in 1..Len(raw.e) |->
                              IF i < Len(typ) THEN LeafFromString(typ[i + 1], raw.e[i].s)
                              ELSE Failed("ConversionError")]
                    bad == {i \in 1..Len(rs) : rs[i].status # "ok"}
                IN  IF Len(raw.e) # Len(typ) - 1 THEN Failed("ConversionError")
                    ELSE IF bad # {} THEN Failed(rs[CHOOSE i \in bad : \A j \in bad : i <= j].status)
                    ELSE Ok(TupleV([i \in 1..Len(rs) |-> rs[i].v]))
          [] h = "List" ->
                LET rs == [i \in 1..Len(raw.e) |-> LeafFromString(typ[2], raw.e[i].s)]
                    bad == {i \in 1..Len(rs) : rs[i].status # "ok"}
                IN  IF bad # {} THEN Failed(rs[CHOOSE i \in bad : \A j \in bad : i <= j].status)
                    ELSE Ok(ListV([i \in 1..Len(rs) |-> rs[i].v]))
          [] OTHER -> LeafFromString(h, raw.s)

\* The attribute `instantiator`: None, the identity (lambda x: x), or the
\* instantiator the type resolver built for a type.
NoInstantiator == [kind |-> "None", typ |-> <<>>]

IdentityInstantiator == [kind |-> "identity", typ |-> <<>>]

ResolvedInstantiator(typ) == [kind |-> "from_type", typ |-> typ]

\* arg.instantiator(raw)
Instantiate(inst, raw) ==
    IF inst.kind = "identity" THEN Ok(raw) ELSE InstantiateFromType(inst.typ, raw)

----------------------------------------------------------------------------
(* ArgumentDefinition and the transformation stages. *)

\* ArgumentDefinition(prefix="", field=field, parent_class=parent_class,
\*     instantiator=None, name=field.name, type=field.type, default=default)
\* with the dataclass's defaults for the remaining attributes.  A type of
\* <<>> is None.
NewArgumentDefinition(f, d) ==
    [prefix |-> <<>>, field |-> f, parent_class |-> "A",
     instantiator |-> NoInstantiator,
     name |-> f.name, type |-> f.type, default |-> d,
     required |-> FALSE, action |-> "None", nargs |-> NoNargs,
     choices |-> NoChoices, metavar |-> NoStr, help |-> NoStr, dest |-> NoStr]

\* The stage as its docstring words it: required when a default IS set.
RequiredWhenDefaultSet(a) ==
    IF a.default # NoneV THEN [a EXCEPT !.required = TRUE] ELSE a

_transform_required_if_default_set(a) ==
    IF a.default = NoneV THEN [a EXCEPT !.required = TRUE] ELSE a

\* The stage with the two flip actions exchanged.
BooleanFlagsExchanged(a) ==
    IF a.type # <<"bool">> THEN a
    ELSE IF a.default = NoneV THEN a
    ELSE IF a.default = FalseV
         THEN [a EXCEPT !.action = "store_false", !.type = <<>>,
                        !.instantiator = IdentityInstantiator]
    ELSE [a EXCEPT !.dest = a.name, !.name = <<"n", "o", "_">> \o a.name,
                   !.action = "store_true", !.type = <<>>,
                   !.instantiator = IdentityInstantiator]

\* The stage without dest=arg.name in the default-True branch.
BooleanFlagsNoDest(a) ==
    IF a.type # <<"bool">> THEN a
    ELSE IF a.default = NoneV THEN a
    ELSE IF a.default = FalseV
         THEN [a EXCEPT !.action = "store_true", !.type = <<>>,
                        !.instantiator = IdentityInstantiator]
    ELSE [a EXCEPT !.name = <<"n", "o", "_">> \o a.name,
                   !.action = "store_false", !.type = <<>>,
                   !.instantiator = IdentityInstantiator]

\* The stage leaving the type bool on a flip action.
BooleanFlagsKeepsType(a) ==
    IF a.type # <<"bool">> THEN a
    ELSE IF a.default = NoneV THEN a
    ELSE IF a.default = FalseV
         THEN [a EXCEPT !.action = "store_true", !.instantiator = IdentityInstantiator]
    ELSE [a EXCEPT !.dest = a.name, !.name = <<"n", "o", "_">> \o a.name,
                   !.action = "store_false", !.instantiator = IdentityInstantiator]

\* `arg.default is False` / `is True`: the default of a bool field is one of
\* the two, or None.
_transform_handle_boolean_flags(a) ==
    IF a.type # <<"bool">> THEN a
    ELSE IF a.default = NoneV THEN a
    ELSE IF a.default = FalseV
         THEN [a EXCEPT !.action = "store_true", !.type = <<>>,
                        !.instantiator = IdentityInstantiator]
    ELSE [a EXCEPT !.dest = a.name, !.name = <<"n", "o", "_">> \o a.name,
                   !.action = "store_false", !.type = <<>>,
                   !.instantiator = IdentityInstantiator]

\* Whether the stage asks the type resolver.
CallsResolver(a) == a.instantiator = NoInstantiator

_transform_recursive_instantiator_from_type(a) ==
    IF a.instantiator # NoInstantiator THEN a
    ELSE LET metadata == MetadataFromType(a.type)
         IN  [a EXCEPT !.instantiator = ResolvedInstantiator(a.type),
                       !.choices = metadata.choices,
                       !.nargs = metadata.nargs,
                       !.required = (~metadata.is_optional) /\ a.required,
                       !.metavar = IF metadata.choices = NoChoices
                                   THEN metadata.metavar ELSE NoStr]

\* The elements of a container default, in order.
Elements(x) == x.e

\* The stage annotating flip actions like any other default.
HelptextIgnoringAction(a, d) ==
    LET docPart == IF d # NoStr THEN <<Replace(d, "%", <<"%", "%">>)>> ELSE <<>>
        open == <<"(", "d", "e", "f", "a", "u", "l", "t", ":", " ">>
        note ==
            IF a.default # NoneV /\ IsEnum(a.default)
            THEN <<open \o EnumName(a.default) \o <<")">> >>
            ELSE IF ~a.required
            THEN IF a.nargs # NoNargs /\ HasIter(a.default)
                 THEN <<open \o Join(<<" ">>,
                            [i \in 1..Len(Elements(a.default)) |->
                                ShlexQuote(PyStr(Elements(a.default)[i]))]) \o <<")">> >>
                 ELSE <<open \o ShlexQuote(PyStr(a.default)) \o <<")">> >>
            ELSE <<>>
    IN  [a EXCEPT !.help = Join(<<" ">>, docPart \o note)]

\* d is _docstrings.get_field_docstring(arg.parent_class, arg.field.name).
_transform_generate_helptext(a, d) ==
    LET docPart == IF d # NoStr THEN <<Replace(d, "%", <<"%", "%">>)>> ELSE <<>>
        open == <<"(", "d", "e", "f", "a", "u", "l", "t", ":", " ">>
        note ==
            IF a.action # "None" THEN <<>>
            ELSE IF a.default # NoneV /\ IsEnum(a.default)
            THEN <<open \o EnumName(a.default) \o <<")">> >>
            ELSE IF ~a.required
            THEN IF a.nargs # NoNargs /\ HasIter(a.default)
                 THEN <<open \o Join(<<" ">>,
                            [i \in 1..Len(Elements(a.default)) |->
                                ShlexQuote(PyStr(Elements(a.default)[i]))]) \o <<")">> >>
                 ELSE <<open \o ShlexQuote(PyStr(a.default)) \o <<")">> >>
            ELSE <<>>
    IN  [a EXCEPT !.help = Join(<<" ">>, docPart \o note)]

\* as_str with str(x) for every x, enum members included.
AsStrPlain(x) == PyStr(x)

as_str(x) == IF IsEnum(x) THEN EnumName(x) ELSE PyStr(x)

\* The stage joining the strings of a container default into one string.
ConvertDefaultsJoined(a) ==
    IF a.default = NoneV \/ a.action # "None" THEN a
    ELSE IF a.nargs # NoNargs
    THEN [a EXCEPT !.default =
            StrV(Join(<<" ">>, [i \in 1..Len(Elements(a.default)) |->
                                    as_str(Elements(a.default)[i])]))]
    ELSE [a EXCEPT !.default = StrV(as_str(a.default))]

\* The stage converting the default of a flip action as well.
ConvertDefaultsIgnoringAction(a) ==
    IF a.default = NoneV THEN a
    ELSE IF a.nargs # NoNargs
    THEN [a EXCEPT !.default =
            TupleV([i \in 1..Len(Elements(a.default)) |-> StrV(as_str(Elements(a.default)[i]))])]
    ELSE [a EXCEPT !.default = StrV(as_str(a.default))]

_transform_convert_defaults_to_strings(a) ==
    IF a.default = NoneV \/ a.action # "None" THEN a
    ELSE IF a.nargs # NoNargs
    THEN [a EXCEPT !.default =
            TupleV([i \in 1..Len(Elements(a.default)) |-> StrV(as_str(Elements(a.default)[i]))])]
    ELSE [a EXCEPT !.default = StrV(as_str(a.default))]

\* The stages of make_from_field in the order of its statements; "built" is
\* the return.
StageOrderHelpLast == <<"required", "boolean", "resolve", "render", "help", "built">>

StageOrder == <<"required", "boolean", "resolve", "help", "render", "built">>

\* The statement after the one at position p.
StageAfter(p) == StageOrder[(CHOOSE i \in 1..Len(StageOrder) : StageOrder[i] = p) + 1]

\* make_from_field as one function of its inputs.
make_from_field(f, d, dc) ==
    _transform_convert_defaults_to_strings(
        _transform_generate_helptext(
            _transform_recursive_instantiator_from_type(
                _transform_handle_boolean_flags(
                    _transform_required_if_default_set(NewArgumentDefinition(f, d)))),
            dc))

----------------------------------------------------------------------------
(* Flags, destinations and the token parsing engine. *)

\* ArgumentDefinition.get_flag
get_flag(a) == <<"-", "-">> \o Replace(a.prefix \o a.name, "_", <<"-">>)

\* The flag and keyword arguments add_argument hands to parser.add_argument.
\* The attributes that are None are left out by the engine's own defaults,
\* which are None as well.
add_argument(a) ==
    [flag |-> get_flag(a),
     dest |-> IF a.dest # NoStr THEN a.prefix \o a.dest ELSE NoStr,
     type |-> IF a.type # <<>> THEN <<"str">> ELSE <<>>,
     choices |-> a.choices,
     default |-> a.default,
     required |-> a.required,
     action |-> a.action,
     nargs |-> a.nargs,
     metavar |-> a.metavar,
     help |-> a.help]

\* The key the engine files the argument's value under: dest when given,
\* else the flag without its dashes and with hyphens as underscores.
DestinationKey(kw) ==
    IF kw.dest # NoStr THEN kw.dest
    ELSE Replace(SubSeq(kw.flag, 3, Len(kw.flag)), "-", <<"_">>)

NoArgv == [given |-> FALSE, flag |-> <<>>, values |-> <<>>]

Raw(status, key, raw) == [status |-> status, key |-> key, raw |-> raw]

\* The engine on one definition and a command line that holds at most one
\* flag with the tokens after it.
ParseArgs(kw, cl) ==
    LET key == DestinationKey(kw)
        n == Len(cl.values)
        tokens == ListV([i \in 1..n |-> StrV(cl.values[i])])
    IN  IF ~cl.given
        THEN IF kw.required THEN Raw("MissingRequired", key, NoneV)
             ELSE Raw("ok", key, kw.default)
        ELSE IF cl.flag # kw.flag THEN Raw("UsageError", key, NoneV)
        ELSE IF kw.action = "store_true"
             THEN IF n = 0 THEN Raw("ok", key, TrueV) ELSE Raw("UsageError", key, NoneV)
        ELSE IF kw.action = "store_false"
             THEN IF n = 0 THEN Raw("ok", key, FalseV) ELSE Raw("UsageError", key, NoneV)
        ELSE IF \/ kw.nargs.kind = "None" /\ n # 1
                \/ kw.nargs.kind = "fixed" /\ n # kw.nargs.n
                \/ kw.nargs.kind = "+" /\ n = 0
             THEN Raw("UsageError", key, NoneV)
        ELSE IF kw.choices.set /\ \E i \in 1..n : cl.values[i] \notin kw.choices.vals
             THEN Raw("InvalidChoice", key, NoneV)
        ELSE IF kw.nargs.kind = "None" THEN Raw("ok", key, StrV(cl.values[1]))
        ELSE Raw("ok", key, tokens)

Result(status, key, value) == [status |-> status, key |-> key, value |-> value]

Pending == Result("pending", <<>>, NoneV)

\* parse for the record holding the field: the engine's value for the key
\* prefix + field.name goes through the instantiator, None stays None, and
\* any failure ends the call with no instance.
Parse(a, cl) ==
    LET ns == ParseArgs(add_argument(a), cl)
        key == a.prefix \o a.field.name
    IN  IF ns.status # "ok" THEN Result(ns.status, key, NoneV)
        ELSE IF ns.key # key THEN Result("KeyError", key, NoneV)
        ELSE IF ns.raw = NoneV THEN Result("ok", key, NoneV)
        ELSE LET r == Instantiate(a.instantiator, ns.raw)
             IN  Result(r.status, key, r.v)

----------------------------------------------------------------------------
(* The inputs. *)

FieldNames == { <<"x">>, <<"m", "y", "_", "f">> }

\* "" at the top level, fieldName + "." for each enclosing record.
Prefixes == { <<>>, <<"x", ".">>, <<"a", "_", "b", ".", "c", ".">> }

Docs == { NoStr, <<"d", "o", "c">>, <<"5", "%", " ", "o", "f", " ", "%">> }

BaseTypes ==
    { <<"int">>, <<"str">>, <<"float">>, <<"bool">>, <<"Color">>,
      <<"List", "int">>, <<"List", "str">>, <<"List", "Color">>,
      <<"Tuple", "int", "int">>, <<"Tuple", "int", "str">>,
      <<"Tuple", "Color", "Color">> }

\* The chains of wrappers Python keeps apart: Final[...] is outermost only,
\* and Annotated[Annotated[T]] and Optional[Optional[T]] collapse.
WrapperChains ==
    { w \in UNION { [1..n -> Wrappers] : n \in 0..MaxWrap } :
        \A i \in 1..Len(w) : /\ w[i] = "Final" => i = 1
                             /\ i > 1 => w[i] # w[i - 1] }

Types == { w \o b : w \in WrapperChains, b \in BaseTypes }

Strings == { <<>>, <<"a">>, <<"a", " ", "b">>, <<"i", "t", "'", "s">> }

\* The values of a leaf type that the model uses as defaults.
LeafValues(leaf) ==
    CASE leaf = "int" -> { IntV(i) : i \in {0 - MaxInt, 0, 5} }
      [] leaf = "str" -> { StrV(t) : t \in Strings }
      [] leaf = "float" -> { FloatV(5), FloatV(50) }
      [] leaf = "bool" -> { TrueV, FalseV }
      [] leaf = "Color" -> { EnumV(1), EnumV(2) }

\* The values of an unwrapped type that the model uses as defaults.
ValuesOf(base) ==
    CASE Head(base) = "List" ->
            { ListV(<<>>) } \cup { ListV(<<v>>) : v \in LeafValues(base[2]) }
            \cup { ListV(<<p[1], p[2]>>) :
                        p \in { q \in LeafValues(base[2]) \X LeafValues(base[2]) : q[1] # q[2] } }
      [] Head(base) = "Tuple" ->
            { TupleV(<<v, w>>) : v \in LeafValues(base[2]), w \in LeafValues(base[3]) }
      [] OTHER -> LeafValues(Head(base))

\* No default, or a value of the field's type.
DefaultsFor(typ) == { NoneV } \cup ValuesOf(BaseOf(typ))

TokenLists ==
    { <<>>,
      << <<"T", "r", "u", "e">> >>, << <<"F", "a", "l", "s", "e">> >>,
      << <<"t", "r", "u", "e">> >>, << <<"f", "a", "l", "s", "e">> >>,
      << <<"1">> >>, << <<"0">> >>, << <<"-", "7">> >>, << <<"0", ".", "5">> >>,
      << <<"R", "E", "D">> >>, << <<"r", "e", "d">> >>, << <<"a", " ", "b">> >>,
      << <<"1">>, <<"2">> >>, << <<"1">>, <<"a">> >>,
      << <<"R", "E", "D">>, <<"B", "L", "U", "E">> >> }

\* The flags a user may type for the field: the plain and the negated one.
PlainFlag(a) == <<"-", "-">> \o Replace(a.prefix \o a.field.name, "_", <<"-">>)

NegatedFlag(a) ==
    <<"-", "-">> \o Replace(a.prefix, "_", <<"-">>) \o <<"n", "o", "-">>
        \o Replace(a.field.name, "_", <<"-">>)

CommandLines(a) ==
    { NoArgv } \cup
    { [given |-> TRUE, flag |-> f, values |-> ts] :
        f \in { PlainFlag(a), NegatedFlag(a) }, ts \in TokenLists }

----------------------------------------------------------------------------
(* The state machine: make_from_field statement by statement, then parse. *)

Init ==
    /\ field \in { [name |-> nm, type |-> t] : nm \in FieldNames, t \in Types }
    /\ fdefault \in DefaultsFor(field.type)
    /\ doc \in Docs
    /\ arg = NewArgumentDefinition(field, fdefault)
    /\ trail = <<arg>>
    /\ ran = <<>>
    /\ resolved = 0
    /\ pc = StageOrder[1]
    /\ argv = NoArgv
    /\ outcome = Pending

\* The statement `arg = stage(arg)` at position p.
Step(p, next) ==
    /\ pc = p
    /\ arg' = next
    /\ trail' = Append(trail, next)
    /\ ran' = Append(ran, p)
    /\ pc' = StageAfter(p)
    /\ UNCHANGED <<field, fdefault, doc, argv, outcome>>

Required ==
    /\ Step("required", _transform_required_if_default_set(arg))
    /\ UNCHANGED resolved

Boolean ==
    /\ Step("boolean", _transform_handle_boolean_flags(arg))
    /\ UNCHANGED resolved

Resolve ==
    /\ Step("resolve", _transform_recursive_instantiator_from_type(arg))
    /\ resolved' = IF CallsResolver(arg) THEN resolved + 1 ELSE resolved

Help ==
    /\ Step("help", _transform_generate_helptext(arg, doc))
    /\ UNCHANGED resolved

Render ==
    /\ Step("render", _transform_convert_defaults_to_strings(arg))
    /\ UNCHANGED resolved

\* The parser places the definition of a nested record's field under the
\* record's prefix.
Nest ==
    /\ pc = "built"
    /\ \E p \in Prefixes : arg' = [arg EXCEPT !.prefix = p]
    /\ pc' = "defined"
    /\ UNCHANGED <<field, fdefault, doc, trail, ran, resolved, argv, outcome>>

ParseCall ==
    /\ pc = "defined"
    /\ \E cl \in CommandLines(arg) :
        /\ argv' = cl
        /\ outcome' = Parse(arg, cl)
    /\ pc' = "parsed"
    /\ UNCHANGED <<field, fdefault, doc, arg, trail, ran, resolved>>

Next == Required \/ Boolean \/ Resolve \/ Help \/ Render \/ Nest \/ ParseCall

Spec == Init /\ [][Next]_vars

----------------------------------------------------------------------------
(* The claims. *)

Built == pc \in {"built", "defined", "parsed"}

TrueToken == <<"T", "r", "u", "e">>

FalseToken == <<"F", "a", "l", "s", "e">>

\* The command line holding the flag f and the tokens ts.
Given(f, ts) == [given |-> TRUE, flag |-> f, values |-> ts]

\* The field's own key: the prefix and the field name as declared.
FieldKey == arg.prefix \o field.name

\* C1: for a field of type bool, parse follows the boolean protocol keyed by
\* the default.  Default False: flag absent gives False, `--x` alone gives
\* True.  Default True: flag absent gives True, `--no-x` alone gives False.
\* No default: flag absent is MissingRequired, the tokens True and False
\* give True and False, every other token is a ConversionError; a failed
\* parse returns no instance.
C1_BooleanProtocol ==
    (pc = "parsed" /\ field.type = <<"bool">>) =>
        /\ (fdefault = FalseV /\ ~argv.given) => outcome = Result("ok", FieldKey, FalseV)
        /\ (fdefault = FalseV /\ argv = Given(PlainFlag(arg), <<>>))
                => outcome = Result("ok", FieldKey, TrueV)
        /\ (fdefault = TrueV /\ ~argv.given) => outcome = Result("ok", FieldKey, TrueV)
        /\ (fdefault = TrueV /\ argv = Given(NegatedFlag(arg), <<>>))
                => outcome = Result("ok", FieldKey, FalseV)
        /\ (fdefault = NoneV /\ ~argv.given)
                => outcome = Result("MissingRequired", FieldKey, NoneV)
        /\ (fdefault = NoneV /\ argv = Given(PlainFlag(arg), <<TrueToken>>))
                => outcome = Result("ok", FieldKey, TrueV)
        /\ (fdefault = NoneV /\ argv = Given(PlainFlag(arg), <<FalseToken>>))
                => outcome = Result("ok", FieldKey, FalseV)
        /\ (/\ fdefault = NoneV /\ argv.given /\ argv.flag = PlainFlag(arg)
            /\ Len(argv.values) = 1 /\ argv.values[1] \notin {TrueToken, FalseToken})
                => outcome = Result("ConversionError", FieldKey, NoneV)

\* A bool without a default was given a lowercase spelling and parse ended
\* with a ConversionError.
C1_Witness ==
    /\ pc = "parsed" /\ field.type = <<"bool">> /\ fdefault = NoneV
    /\ argv = Given(PlainFlag(arg), << <<"t", "r", "u", "e">> >>)
    /\ outcome.status = "ConversionError"

\* C2: for a bool field with default True, at any prefix, the flag is
\* "--" + prefix + "no-" + field name with underscores as hyphens, the
\* destination handed to the engine is prefix + the field name as declared,
\* the value parsed for the negated flag reaches the field as False, and
\* with the flag absent the field is True.
C2_NegatedFlagRouting ==
    (pc \in {"defined", "parsed"} /\ field.type = <<"bool">> /\ fdefault = TrueV) =>
        /\ get_flag(arg) = NegatedFlag(arg)
        /\ add_argument(arg).dest = FieldKey
        /\ DestinationKey(add_argument(arg)) = FieldKey
        /\ (pc = "parsed" /\ argv = Given(NegatedFlag(arg), <<>>))
                => outcome = Result("ok", FieldKey, FalseV)
        /\ (pc = "parsed" /\ ~argv.given) => outcome = Result("ok", FieldKey, TrueV)

\* `--x.no-x` was parsed for the field x of a record nested under x and the
\* field is False.
C2_Witness ==
    /\ pc = "parsed" /\ field.type = <<"bool">> /\ fdefault = TrueV
    /\ field.name = <<"x">> /\ arg.prefix = <<"x", ".">>
    /\ argv = Given(<<"-", "-", "x", ".", "n", "o", "-", "x">>, <<>>)
    /\ outcome = Result("ok", <<"x", ".", "x">>, FalseV)

\* Optional[...] is among the wrappers of the annotation.
OptionalWrapped(typ) ==
    \E i \in 1..Len(typ) : typ[i] = "Optional" /\ \A j \in 1..i : typ[j] \in Wrappers

InnerDefinition ==
    [make_from_field([field EXCEPT !.type = Tail(field.type)], fdefault, doc)
        EXCEPT !.prefix = arg.prefix]

\* C4: transparent wrappers are semantic no-ops: for every inner type T
\* (bool included) and every default, the definition built for Annotated[T]
\* or Final[T] has the same action, flag, destination key, arity, choices,
\* required-ness and rendered default as the one built for T, and the same
\* tokens parse to the same value.
C4_TransparentWrappers ==
    (Built /\ Head(field.type) \in {"Annotated", "Final"}) =>
        /\ arg.action = InnerDefinition.action
        /\ get_flag(arg) = get_flag(InnerDefinition)
        /\ DestinationKey(add_argument(arg)) = DestinationKey(add_argument(InnerDefinition))
        /\ arg.nargs = InnerDefinition.nargs
        /\ arg.choices = InnerDefinition.choices
        /\ arg.required = InnerDefinition.required
        /\ arg.default = InnerDefinition.default
        /\ pc = "parsed" => outcome = Parse(InnerDefinition, argv)

\* C5: round trip: the token(s) the default renderer produces for a default
\* v, fed to the field's instantiator, give v again, so a parse of no tokens
\* gives the field its default.
C5_RoundTrip ==
    /\ (Built /\ fdefault # NoneV /\ arg.action = "None")
            => Instantiate(arg.instantiator, arg.default) = Ok(fdefault)
    /\ (pc = "parsed" /\ fdefault # NoneV /\ ~argv.given)
            => outcome = Result("ok", FieldKey, fdefault)

\* A List[Color] field defaulting to [RED, GREEN] was parsed from no tokens.
C5_Witness ==
    /\ pc = "parsed" /\ ~argv.given
    /\ field.type = <<"List", "Color">> /\ fdefault = ListV(<<EnumV(1), EnumV(2)>>)
    /\ arg.default = TupleV(<<StrV(<<"R", "E", "D">>), StrV(<<"G", "R", "E", "E", "N">>)>>)
    /\ outcome.value = fdefault

\* The string of one element of a default: the member name of an enum
\* member, str(x) of anything else.
ElementString(x) == IF x.k = "Color" THEN ColorNames[x.n] ELSE PyStr(x)

\* A definition whose default the renderer converts.
Rendered == Built /\ fdefault # NoneV /\ arg.action = "None"

\* C6 as stated: the renderer gives the member name for an enum default,
\* shell-safely-quoted per-element strings (one per element) for a variadic
\* or fixed-arity field, and str(default) otherwise.
C6_RendererQuotes ==
    Rendered =>
        IF arg.nargs # NoNargs
        THEN arg.default =
                TupleV([i \in 1..Len(fdefault.e) |-> StrV(ShlexQuote(ElementString(fdefault.e[i])))])
        ELSE arg.default = StrV(ElementString(fdefault))

\* C6, amended: as above, but the per-element strings are not quoted.
C6_RendererPlain ==
    Rendered =>
        IF arg.nargs # NoNargs
        THEN /\ arg.default.k = "tuple"
             /\ Len(arg.default.e) = Len(fdefault.e)
             /\ \A i \in 1..Len(fdefault.e) :
                    arg.default.e[i] = StrV(ElementString(fdefault.e[i]))
        ELSE arg.default = StrV(ElementString(fdefault))

\* A List[str] field defaulting to ["a b", "it's"] was rendered to the two
\* strings as they are.
C6_Witness ==
    /\ Rendered /\ field.type = <<"List", "str">>
    /\ fdefault = ListV(<<StrV(<<"a", " ", "b">>), StrV(<<"i", "t", "'", "s">>)>>)
    /\ arg.default = TupleV(<<StrV(<<"a", " ", "b">>), StrV(<<"i", "t", "'", "s">>)>>)

\* The documentation part of the help text: nothing when there is no
\* documentation, else the documentation with every % doubled.
DocText == IF doc = NoStr THEN <<>> ELSE Replace(doc, "%", <<"%", "%">>)

\* The part of the help text after the documentation and the space that
\* joins the two.
Annotation ==
    IF doc = NoStr THEN arg.help
    ELSE IF Len(arg.help) > Len(DocText) + 1
         THEN SubSeq(arg.help, Len(DocText) + 2, Len(arg.help))
    ELSE <<>>

DefaultOpen == <<"(", "d", "e", "f", "a", "u", "l", "t", ":", " ">>

IsAnnotation(t) ==
    /\ Len(t) > Len(DefaultOpen)
    /\ SubSeq(t, 1, Len(DefaultOpen)) = DefaultOpen
    /\ t[Len(t)] = ")"

\* C7: the help text is the documentation (when there is any, with every %
\* doubled) followed by a default annotation, except that a flip action
\* carries none, a required definition carries none, and an enum default
\* is annotated with its member name.
C7_HelpText ==
    Built =>
        /\ SubSeq(arg.help, 1, Len(DocText)) = DocText
        /\ arg.action # "None" => arg.help = DocText
        /\ arg.required => arg.help = DocText
        /\ (arg.action = "None" /\ ~arg.required) =>
                /\ IsAnnotation(Annotation)
                /\ arg.help = Join(<<" ">>, (IF doc = NoStr THEN <<>> ELSE <<DocText>>)
                                                \o <<Annotation>>)
        /\ (arg.action = "None" /\ IsEnum(fdefault)) =>
                Annotation = DefaultOpen \o ColorNames[fdefault.n] \o <<")">>

\* A Color field defaulting to GREEN and documented "5% of %" has the help
\* text "5%% of %% (default: GREEN)".
C7_Witness ==
    /\ Built /\ field.type = <<"Color">> /\ fdefault = EnumV(2)
    /\ doc = <<"5", "%", " ", "o", "f", " ", "%">>
    /\ arg.help = <<"5", "%", "%", " ", "o", "f", " ", "%", "%", " ">>
                    \o DefaultOpen \o <<"G", "R", "E", "E", "N", ")">>

\* The Boolean Specializer is triggered: type bool with default True or False.
Triggered == field.type = <<"bool">> /\ fdefault \in {TrueV, FalseV}

\* C8: the stages run in the order required-marking, Boolean Flag
\* Specializer, Type Resolver, Help Text Composer, Default Renderer; when
\* the Boolean Specializer is triggered the resolver is never asked and the
\* resolver stage returns the definition it received; the Help Composer is
\* handed the native default.
C8_StageOrder ==
    /\ ran = SubSeq(<<"required", "boolean", "resolve", "help", "render">>, 1, Len(ran))
    /\ Built => Len(ran) = 5
    /\ Triggered =>
            /\ resolved = 0
            /\ \A i \in 1..Len(ran) : ran[i] = "resolve" => trail[i + 1] = trail[i]
    /\ \A i \in 1..Len(ran) : ran[i] = "help" => trail[i].default = fdefault

\* All five stages ran for a bool defaulting to True and the resolver was
\* never asked.
C8_Witness ==
    /\ pc = "built" /\ Triggered /\ fdefault = TrueV
    /\ ran = <<"required", "boolean", "resolve", "help", "render">>
    /\ resolved = 0

FlipActions == {"store_true", "store_false"}

\* C9 as stated: a definition with a flip action has no type and no
\* instantiator attached, and a definition with no action has the type and
\* the instantiator the Type Resolver produced.
C9_NoInstantiatorOnFlip ==
    Built =>
        /\ arg.action \in FlipActions =>
                (arg.type = <<>> /\ arg.instantiator = NoInstantiator)
        /\ arg.action = "None" =>
                (arg.type = field.type /\ arg.instantiator = ResolvedInstantiator(field.type))

\* C9, amended: a definition with a flip action has no type and the
\* identity as its instantiator, with nothing of the Type Resolver attached
\* (no choices, arity or value hint); a definition with no action has the
\* type and the instantiator the Type Resolver produced.
C9_IdentityOnFlip ==
    Built =>
        /\ arg.action \in FlipActions \cup {"None"}
        /\ arg.action \in FlipActions =>
                /\ arg.type = <<>>
                /\ arg.instantiator = IdentityInstantiator
                /\ arg.choices = NoChoices /\ arg.nargs = NoNargs /\ arg.metavar = NoStr
        /\ arg.action = "None" =>
                (arg.type = field.type /\ arg.instantiator = ResolvedInstantiator(field.type))

\* A bool defaulting to False was built: flip-to-true, no type, the identity.
C9_Witness ==
    /\ pc = "built" /\ field.type = <<"bool">> /\ fdefault = FalseV
    /\ arg.action = "store_true" /\ arg.type = <<>>
    /\ arg.instantiator = IdentityInstantiator

\* C10: every stage leaves prefix, field and parent_class as they were, and
\* a stage that does not apply returns a definition equal to its input: the
\* Boolean Specializer for a non-bool type or a bool with no default, the
\* Type Resolver when an instantiator is attached, the Default Renderer when
\* no default is present or a flip action is set.  Every definition bound to
\* `arg` so far is still the value it was when the stage returned it.
C10_Frame ==
    /\ Len(trail) = Len(ran) + 1
    /\ trail[1] = NewArgumentDefinition(field, fdefault)
    /\ \A i \in 1..Len(ran) :
        LET in == trail[i]
            out == trail[i + 1]
        IN  /\ out.prefix = in.prefix
            /\ out.field = in.field
            /\ out.parent_class = in.parent_class
            /\ (ran[i] = "boolean" /\ (in.type # <<"bool">> \/ in.default = NoneV))
                    => out = in
            /\ (ran[i] = "resolve" /\ in.instantiator # NoInstantiator) => out = in
            /\ (ran[i] = "render" /\ (in.default = NoneV \/ in.action # "None"))
                    => out = in

\* A bool with no default went through all five stages: the Boolean
\* Specializer did not apply and returned what it was given.
C10_Witness ==
    /\ pc = "built" /\ field.type = <<"bool">> /\ fdefault = NoneV
    /\ Len(trail) = 6 /\ trail[3] = trail[2] /\ trail[6] = trail[5]

====
